---- MODULE Spec2Model ----
(***************************************************************************)
(* Model of streamlit_app.py: the Markdown converter.                      *)
(*                                                                         *)
(* Text is a sequence of one-character strings, so that the string         *)
(* operations of the code (startswith, indexing, get_text, re.sub) are     *)
(* computed rather than assumed.  HTML text is a sequence of tokens: a     *)
(* start tag, an end tag, or a run of character data.                      *)
(***************************************************************************)
EXTENDS Integers, Sequences, FiniteSets, TLC

\* ------------------------------------------------------------------ bounds

\* The largest number of nodes (elements and text runs) of an HTML fragment.
MaxNodes == 3

\* ------------------------------------------------------------------- text

\* Python's None, where the other values are strings.
None == "None"

\* Python's None, where the other values are sequences (texts, bytes, colors).
Nothing == <<>>

h1 == <<"h", "1">>
h2 == <<"h", "2">>
h3 == <<"h", "3">>
h4 == <<"h", "4">>
h5 == <<"h", "5">>
h6 == <<"h", "6">>
p == <<"p">>
pre == <<"p", "r", "e">>
ul == <<"u", "l">>
ol == <<"o", "l">>
li == <<"l", "i">>
blockquote == <<"b", "l", "o", "c", "k", "q", "u", "o", "t", "e">>
div == <<"d", "i", "v">>
style == <<"s", "t", "y", "l", "e">>
html == <<"h", "t", "m", "l">>
head == <<"h", "e", "a", "d">>
body == <<"b", "o", "d", "y">>

\* The name of a text node (a NavigableString has no tag name).
NoName == <<>>

Whitespace == {" ", "\n"}

\* str.startswith(c) for a one-character prefix c.
StartsWith(s, c) == Len(s) >= 1 /\ s[1] = c

\* int(c) for a one-character string c.
DigitValue(c) ==
    CASE c = "0" -> 0 [] c = "1" -> 1 [] c = "2" -> 2 [] c = "3" -> 3
      [] c = "4" -> 4 [] c = "5" -> 5 [] c = "6" -> 6 [] c = "7" -> 7
      [] c = "8" -> 8 [] c = "9" -> 9

\* ------------------------------------------------------------ HTML tokens

Open(n) == [k |-> "open", v |-> n]
Close(n) == [k |-> "close", v |-> n]
Text(s) == [k |-> "text", v |-> s]

\* ------------------------------------------------ the Markdown parser's output

\* The element names a fragment is built from.  div stands for every element
\* the converter does not look for (div, table, td, code, span, ...).
FragmentNames == {h1, h2, h3, h4, h5, h6, p, pre, ul, ol, li, blockquote, div}

\* The elements that hold other elements; the others hold character data only.
ContainerNames == {ul, ol, li, blockquote, div}

\* The character data of a fragment: a word, and a line with its line break.
TextValues == {<<"a">>, <<"b", "\n">>}

\* A tree is the sequence of its nodes in document order; parent 0 is the root.
RECURSIVE AncestorsOrSelf(_, _)
AncestorsOrSelf(t, i) ==
    IF i = 0 THEN {0} ELSE {i} \cup AncestorsOrSelf(t, t[i].parent)

\* The nodes that may follow tree t in document order.
Extensions(t) ==
    LET n == Len(t)
        open == {q \in AncestorsOrSelf(t, n) : q = 0 \/ t[q].name # NoName}
        elems == {[name |-> e, parent |-> q, string |-> <<>>] :
                    e \in FragmentNames,
                    q \in {r \in open : r = 0 \/ t[r].name \in ContainerNames}}
        texts == {[name |-> NoName, parent |-> q, string |-> s] :
                    s \in TextValues,
                    q \in {r \in open :
                             ~(n > 0 /\ t[n].name = NoName /\ t[n].parent = r)}}
    IN  elems \cup texts

\* The end tags due before node i starts (i = Len(t) + 1: at the end), innermost
\* first: those of the open elements that are not ancestors of node i.
RECURSIVE Closers(_, _, _)
Closers(t, j, keep) ==
    IF j = 0 \/ j \in keep THEN <<>>
    ELSE (IF t[j].name = NoName THEN <<>> ELSE <<Close(t[j].name)>>)
         \o Closers(t, t[j].parent, keep)

RECURSIVE SerializeFrom(_, _)
SerializeFrom(t, i) ==
    IF i > Len(t) THEN Closers(t, Len(t), {})
    ELSE Closers(t, i - 1, AncestorsOrSelf(t, t[i].parent))
         \o <<IF t[i].name = NoName THEN Text(t[i].string) ELSE Open(t[i].name)>>
         \o SerializeFrom(t, i + 1)

\* The HTML text of a tree.
Serialize(t) == SerializeFrom(t, 1)

\* ------------------------------------------------------------------- state

VARIABLES
    md_content,     \* the uploaded Markdown, held as the fragment the Markdown
                    \* parser returns for it; NoFile while none is uploaded
    output_format,  \* the selected output format
    custom_css,     \* the text of the "Custom CSS" text area
    pc,             \* where the script run stands
    html_content,   \* main's html_content
    soup,           \* convert_to_docx_with_style's parse tree
    elements,       \* the result of find_all, as positions in soup
    doc,            \* the Document under construction: its blocks in order
    pdf_data,       \* the value convert_to_pdf returned
    screen,         \* what the run has put on the page
    memo            \* history: at most one finished request, as observed

vars == <<md_content, output_format, custom_css, pc, html_content, soup,
          elements, doc, pdf_data, screen, memo>>

\* uploaded_file is None.
NoFile == <<[k |-> "none", v |-> <<>>]>>

\* ------------------------------------------------- md_to_html_with_style

\* The embedded stylesheet of lines 38-48, as one character.
DefaultCss == <<"d">>

\* The f-string of lines 32-55 around the parser's output.
md_to_html_with_style(fragment) ==
    <<Open(html), Open(head), Open(style), Text(DefaultCss), Close(style),
      Close(head), Open(body), Text(<<"\n">>)>>
    \o fragment
    \o <<Text(<<"\n">>), Close(body), Close(html)>>

\* ----------------------------------------------------------- BeautifulSoup

Top(stack) == IF stack = <<>> THEN 0 ELSE stack[Len(stack)]

\* Whether an element named n is open.
IsOpen(nodes, stack, n) == \E j \in 1..Len(stack) : nodes[stack[j]].name = n

\* _popToTag: an end tag closes the innermost open element of its name and all
\* that were opened inside it; with no such element open it does nothing.
PopToTag(nodes, stack, n) ==
    IF ~IsOpen(nodes, stack, n) THEN stack
    ELSE LET innermost == CHOOSE j \in 1..Len(stack) :
                              /\ nodes[stack[j]].name = n
                              /\ \A m \in (j + 1)..Len(stack) : nodes[stack[m]].name # n
         IN  SubSeq(stack, 1, innermost - 1)

\* endData: the pending character data becomes one string under the current
\* element; outside <pre>, data of whitespace only shrinks to one character.
EndData(nodes, stack, data) ==
    IF data = <<>> THEN nodes
    ELSE LET blank == \A j \in 1..Len(data) : data[j] \in Whitespace
             s == IF blank /\ ~IsOpen(nodes, stack, pre)
                  THEN (IF \E j \in 1..Len(data) : data[j] = "\n"
                        THEN <<"\n">> ELSE <<" ">>)
                  ELSE data
         IN  Append(nodes, [name |-> NoName, parent |-> Top(stack), string |-> s])

\* The parser (nodes made, open elements, pending data) after one more token:
\* handle_data, handle_starttag, handle_endtag.
Feed(st, tok) ==
    IF tok.k = "text" THEN [st EXCEPT !.data = st.data \o tok.v]
    ELSE LET flushed == EndData(st.nodes, st.stack, st.data)
         IN  IF tok.k = "open"
             THEN [nodes |-> Append(flushed, [name |-> tok.v,
                                              parent |-> Top(st.stack),
                                              string |-> <<>>]),
                   stack |-> Append(st.stack, Len(flushed) + 1),
                   data |-> <<>>]
             ELSE [nodes |-> flushed,
                   stack |-> PopToTag(flushed, st.stack, tok.v),
                   data |-> <<>>]

\* The tokens from the i-th on are fed to the parser one by one.  (The state
\* after a token is bound as the element of a set: it is computed once.)
RECURSIVE ParseFrom(_, _, _)
ParseFrom(toks, i, st) ==
    IF i > Len(toks) THEN EndData(st.nodes, st.stack, st.data)
    ELSE CHOOSE tree \in {ParseFrom(toks, i + 1, next) :
                            next \in {Feed(st, toks[i])}} : TRUE

\* BeautifulSoup(html_content, 'html.parser'): the nodes in document order.
BeautifulSoup(toks) ==
    ParseFrom(toks, 1, [nodes |-> <<>>, stack |-> <<>>, data |-> <<>>])

RECURSIVE Ancestors(_, _)
Ancestors(tree, i) ==
    IF tree[i].parent = 0 THEN {0}
    ELSE {tree[i].parent} \cup Ancestors(tree, tree[i].parent)

\* soup.body: the first element named body.
Body(tree) ==
    CHOOSE b \in 1..Len(tree) :
        /\ tree[b].name = body
        /\ \A c \in 1..(b - 1) : tree[c].name # body

\* A faulty find_all, as with recursive=False: the children of e only.
find_all_children(tree, e, names) ==
    SelectSeq([i \in 1..Len(tree) |-> i],
              LAMBDA i : tree[i].parent = e /\ tree[i].name \in names)

\* e.find_all(names): the elements below e with one of the names, in document
\* order.
find_all(tree, e, names) ==
    SelectSeq([i \in 1..Len(tree) |-> i],
              LAMBDA i : e \in Ancestors(tree, i) /\ tree[i].name \in names)

\* e.get_text(): every string below e, joined in document order.
RECURSIVE TextFrom(_, _, _)
TextFrom(tree, e, i) ==
    IF i > Len(tree) THEN <<>>
    ELSE (IF tree[i].name = NoName /\ e \in Ancestors(tree, i)
          THEN tree[i].string ELSE <<>>)
         \o TextFrom(tree, e, i + 1)

get_text(tree, e) == TextFrom(tree, e, e + 1)

\* ------------------------------------------------ convert_to_docx_with_style

\* The names line 72 asks find_all for.
WantedNames == {h1, h2, h3, h4, p, pre, ul, ol, li, blockquote}

RGBColor(r, g, b) == <<r, g, b>>

\* doc.add_heading(level=level) and the run added to it.
Heading(level, text, color, e) ==
    [style |-> "Heading", level |-> level, text |-> text, color |-> color,
     font |-> None, src |-> e]

\* doc.add_paragraph(style=...) and the run added to it.
Paragraph(styleName, text, font, e) ==
    [style |-> styleName, level |-> 0, text |-> text, color |-> Nothing,
     font |-> font, src |-> e]

\* A faulty color rule: the title color up to level 2.
HeadingColorUpTo2(level) ==
    IF level <= 2 THEN RGBColor(44, 62, 80) ELSE RGBColor(52, 152, 219)

\* The color of a heading run.
HeadingColor(level) ==
    IF level = 1 THEN RGBColor(44, 62, 80) ELSE RGBColor(52, 152, 219)

\* int(tag_name[1])
HeadingLevel(tag_name) == DigitValue(tag_name[2])

\* A faulty list style: the test made on the wrong list kind.
ListStyleSwapped(parent_tag) ==
    IF parent_tag = ol THEN "List Bullet" ELSE "List Number"

\* The style of a list item's paragraph.
ListStyle(parent_tag) ==
    IF parent_tag = ul THEN "List Bullet" ELSE "List Number"

\* The text of a code block's run.
CodeText(tree, e) == get_text(tree, e)

\* One pass of the loop body: the document after element e.
LoopBody(tree, e, d) ==
    LET tag_name == tree[e].name
    IN  IF StartsWith(tag_name, "h")
        THEN Append(d, Heading(HeadingLevel(tag_name), get_text(tree, e),
                               HeadingColor(HeadingLevel(tag_name)), e))
        ELSE IF tag_name = p
        THEN Append(d, Paragraph("Normal", get_text(tree, e), None, e))
        ELSE IF tag_name = pre
        THEN Append(d, Paragraph("Normal", CodeText(tree, e), "Courier New", e))
        ELSE IF tag_name \in {ul, ol}
        THEN d
        ELSE IF tag_name = li
        THEN Append(d, Paragraph(ListStyle(tree[tree[e].parent].name),
                                 get_text(tree, e), None, e))
        ELSE IF tag_name = blockquote
        THEN Append(d, Paragraph("Quote", get_text(tree, e), None, e))
        ELSE d

\* The for loop of lines 72-107 from its i-th element on.
RECURSIVE Loop(_, _, _, _)
Loop(tree, els, i, d) ==
    IF i > Len(els) THEN d ELSE Loop(tree, els, i + 1, LoopBody(tree, els[i], d))

\* Document()
NewDocument == <<>>

\* Lines 69-72: the parse and the find_all the loop iterates over.
Extract ==
    /\ pc = "parsed"
    /\ output_format = "DOCX"
    /\ LET tree == BeautifulSoup(html_content)
       IN  /\ soup' = tree
           /\ elements' = find_all(tree, Body(tree), WantedNames)
    /\ doc' = NewDocument
    /\ pc' = "extracted"
    /\ UNCHANGED <<md_content, custom_css, output_format, html_content,
                   pdf_data, screen, memo>>

\* Lines 72-107: the loop.
Build ==
    /\ pc = "extracted"
    /\ doc' = Loop(soup, elements, 1, doc)
    /\ pc' = "built"
    /\ UNCHANGED <<md_content, custom_css, output_format, html_content, soup,
                   elements, pdf_data, screen, memo>>

\* The text area's initial value (lines 143-145), as one character.
InitialCss == <<"c">>

\* html_content is the styled HTML of tree t or of a tree that extends
\* t by at most k nodes.
RECURSIVE Converted(_, _)
Converted(t, k) ==
    \/ html_content = md_to_html_with_style(Serialize(t))
    \/ k > 0 /\ \E x \in Extensions(t) : Converted(Append(t, x), k - 1)

\* convert_to_docx_with_style on the HTML of every fragment within the bounds.
Init ==
    /\ Converted(<<>>, MaxNodes)
    /\ md_content = NoFile
    /\ output_format = "DOCX"
    /\ custom_css = InitialCss
    /\ pc = "parsed"
    /\ soup = <<>>
    /\ elements = <<>>
    /\ doc = <<>>
    /\ pdf_data = Nothing
    /\ screen = <<>>
    /\ memo = <<>>

Next == Extract \/ Build

Spec == Init /\ [][Next]_vars

\* -------------------------------------------------------------------- main

\* The documents uploaded to the application, each held as the fragment the
\* Markdown parser returns for it: a title and a paragraph; a table (an
\* element the converter does not look for); a raw <style> block followed by
\* a paragraph; a list of two items.
SampleDocs ==
    { <<Open(h1), Text(<<"t">>), Close(h1), Open(p), Text(<<"w">>), Close(p)>>,
      <<Open(div), Text(<<"a">>), Close(div)>>,
      <<Open(style), Text(<<"s">>), Close(style), Open(p), Text(<<"w">>), Close(p)>>,
      <<Open(ul), Open(li), Text(<<"a">>), Close(li),
        Open(li), Text(<<"b">>), Close(li), Close(ul)>> }

\* The texts typed into the "Custom CSS" area: none, the initial text, and
\* texts with a backslash (CSS escapes such as content: "\n" or "\1F600").
CssSamples == {<<>>, InitialCss, <<"\\", "n">>, <<"\\", "1">>}

Formats == {"HTML", "PDF", "DOCX"}

\* The characters re.sub reads specially after a backslash in its replacement
\* text (texts are lower case; the model has no character for what \0, \a, \b,
\* \v and \g<...> stand for, and no sample text uses them).
Escapes == {"n", "t", "r", "f"}
GroupDigits == {"1", "2", "3", "4", "5", "6", "7", "8", "9"}
BadEscapes == {"c", "d", "e", "h", "i", "j", "k", "l", "m", "o", "p", "q", "s",
               "u", "w", "x", "y", "z"}
NotModelled == {"0", "a", "b", "g", "v"}

\* The character an escape stands for.
EscapeChar(c) ==
    CASE c = "n" -> "\n" [] c = "t" -> "\t" [] c = "r" -> "\r" [] c = "f" -> "\f"

\* re.sub's reading of its replacement text from position i on: \n, \t, \r, \f
\* are control characters, \\ is one backslash, a backslash before a digit is
\* a group reference (the pattern has no group: re.error), a backslash before
\* another letter is a bad escape (re.error), and everything else stands for
\* itself.  The text is followed by the "<" of "</style>".
RECURSIVE ExpandTemplate(_, _)
ExpandTemplate(t, i) ==
    IF i > Len(t) THEN [ok |-> TRUE, out |-> <<>>]
    ELSE LET after == IF t[i] # "\\" THEN "" ELSE IF i < Len(t) THEN t[i + 1] ELSE "<"
             plain == ExpandTemplate(t, i + 1)
             escaped == ExpandTemplate(t, i + 2)
         IN  CASE after \in Escapes ->
                      [ok |-> escaped.ok, out |-> <<EscapeChar(after)>> \o escaped.out]
               [] after = "\\" ->
                      [ok |-> escaped.ok, out |-> <<"\\">> \o escaped.out]
               [] after \in GroupDigits \cup BadEscapes ->
                      [ok |-> FALSE, out |-> <<>>]
               [] after \notin Escapes \cup {"\\"} \cup GroupDigits \cup BadEscapes
                                 \cup NotModelled ->
                      [ok |-> plain.ok, out |-> <<t[i]>> \o plain.out]

\* The end of the shortest match of <style>.*?</style> that starts at token i,
\* or 0 when none starts there.
MatchEnd(toks, i) ==
    IF toks[i] = Open(style) /\ \E j \in (i + 1)..Len(toks) : toks[j] = Close(style)
    THEN CHOOSE j \in (i + 1)..Len(toks) :
             /\ toks[j] = Close(style)
             /\ \A m \in (i + 1)..(j - 1) : toks[m] # Close(style)
    ELSE 0

\* re.sub(r'<style>.*?</style>', f'<style>{css}</style>', toks, flags=re.DOTALL)
\* from token i on: every match, left to right, becomes the replacement.
RECURSIVE SubFrom(_, _, _)
SubFrom(toks, i, css) ==
    IF i > Len(toks) THEN <<>>
    ELSE IF MatchEnd(toks, i) # 0
    THEN <<Open(style), Text(css), Close(style)>>
         \o SubFrom(toks, MatchEnd(toks, i) + 1, css)
    ELSE <<toks[i]>> \o SubFrom(toks, i + 1, css)

\* The HTML after lines 155-161.
ReplaceStyle(toks, css) ==
    IF css # <<>> THEN SubFrom(toks, 1, ExpandTemplate(css, 1).out) ELSE toks

\* Whether lines 155-161 raise re.error.
ReplaceStyleRaises(css) == css # <<>> /\ ~ExpandTemplate(css, 1).ok

DownloadButton(label, data) ==
    [widget |-> "download_button", label |-> label, data |-> data]

\* st.error
Error == [widget |-> "error", label |-> "Error converting to PDF", data |-> Nothing]

\* The bytes weasyprint writes for an HTML text.
write_pdf(toks) == <<[k |-> "pdf", v |-> toks]>>

\* The script is between runs: it waits for the user.
Resting == {"idle", "emitted", "failed", "raised"}

\* A press of Convert has been answered.
Finished == {"emitted", "failed", "raised"}

\* A rerun of the script without a press of Convert renders the widgets only.
Rerun ==
    /\ pc' = "idle"
    /\ html_content' = <<>>
    /\ soup' = <<>>
    /\ elements' = <<>>
    /\ doc' = <<>>
    /\ pdf_data' = Nothing
    /\ screen' = <<>>

\* Line 124: a file is uploaded.
Upload ==
    /\ pc \in Resting
    /\ \E f \in SampleDocs : md_content' = f
    /\ Rerun
    /\ UNCHANGED <<output_format, custom_css, memo>>

\* Lines 134-137: an output format is selected.
SelectFormat ==
    /\ pc \in Resting
    /\ md_content # NoFile
    /\ \E f \in Formats \ {output_format} : output_format' = f
    /\ Rerun
    /\ UNCHANGED <<md_content, custom_css, memo>>

\* Lines 140-147: the custom CSS is edited.
EditCss ==
    /\ pc \in Resting
    /\ md_content # NoFile
    /\ \E c \in CssSamples \ {custom_css} : custom_css' = c
    /\ Rerun
    /\ UNCHANGED <<md_content, output_format, memo>>

\* Lines 149-151: Convert is pressed and the run converts the Markdown to HTML.
Convert ==
    /\ pc \in Resting
    /\ md_content # NoFile
    /\ html_content' = md_to_html_with_style(md_content)
    /\ pc' = "parsed"
    /\ soup' = <<>>
    /\ elements' = <<>>
    /\ doc' = <<>>
    /\ pdf_data' = Nothing
    /\ screen' = <<>>
    /\ UNCHANGED <<md_content, output_format, custom_css, memo>>

\* Lines 153-173: the HTML, with the custom CSS put in, is offered and shown.
ConvertHtml ==
    /\ pc = "parsed"
    /\ output_format = "HTML"
    /\ ~ReplaceStyleRaises(custom_css)
    /\ LET styled == ReplaceStyle(html_content, custom_css)
       IN  /\ html_content' = styled
           /\ screen' = <<DownloadButton("Download HTML", styled),
                          [widget |-> "html", label |-> "HTML Preview",
                           data |-> styled]>>
    /\ pc' = "emitted"
    /\ UNCHANGED <<md_content, output_format, custom_css, soup, elements, doc,
                   pdf_data, memo>>

\* Lines 155-161 when re.sub raises: nothing in main catches the exception.
ConvertHtmlRaises ==
    /\ pc = "parsed"
    /\ output_format = "HTML"
    /\ ReplaceStyleRaises(custom_css)
    /\ pc' = "raised"
    /\ UNCHANGED <<md_content, output_format, custom_css, html_content, soup,
                   elements, doc, pdf_data, screen, memo>>

\* Lines 58-62 and 175-183: weasyprint writes the PDF, which is offered.
ConvertToPdf ==
    /\ pc = "parsed"
    /\ output_format = "PDF"
    /\ pdf_data' = write_pdf(html_content)
    /\ screen' = <<DownloadButton("Download PDF", write_pdf(html_content))>>
    /\ pc' = "emitted"
    /\ UNCHANGED <<md_content, output_format, custom_css, html_content, soup,
                   elements, doc, memo>>

\* A faulty convert_to_pdf without its try/except: the engine's exception
\* leaves main.
ConvertToPdfPropagates ==
    /\ pc = "parsed"
    /\ output_format = "PDF"
    /\ pc' = "raised"
    /\ UNCHANGED <<md_content, output_format, custom_css, html_content, soup,
                   elements, doc, pdf_data, screen, memo>>

\* A faulty convert_to_pdf that reports the error and renders again.
ConvertToPdfRetries ==
    /\ pc = "parsed"
    /\ output_format = "PDF"
    /\ screen = <<>>
    /\ screen' = <<Error>>
    /\ UNCHANGED <<md_content, output_format, custom_css, pc, html_content,
                   soup, elements, doc, pdf_data, memo>>

\* Lines 58-65 and 175-177: weasyprint raises; convert_to_pdf reports the
\* error and returns None, and main offers nothing.
ConvertToPdfFails ==
    /\ pc = "parsed"
    /\ output_format = "PDF"
    /\ pdf_data' = Nothing
    /\ screen' = <<Error>>
    /\ pc' = "failed"
    /\ UNCHANGED <<md_content, output_format, custom_css, html_content, soup,
                   elements, doc, memo>>

\* Lines 109-112 and 186-192: the document is saved and its bytes are offered.
EmitDocx ==
    /\ pc = "built"
    /\ screen' = <<DownloadButton("Download DOCX", doc)>>
    /\ pc' = "emitted"
    /\ UNCHANGED <<md_content, output_format, custom_css, html_content, soup,
                   elements, doc, pdf_data, memo>>

\* History: a finished request is noted, with its answer.
Observe ==
    /\ pc \in Finished
    /\ memo = <<>>
    /\ memo' = <<[md |-> md_content, fmt |-> output_format, css |-> custom_css,
                  pc |-> pc, screen |-> screen]>>
    /\ UNCHANGED <<md_content, output_format, custom_css, pc, html_content,
                   soup, elements, doc, pdf_data, screen>>

\* The application as started: no file uploaded yet.
MainInit ==
    /\ md_content = NoFile
    /\ output_format = "HTML"
    /\ custom_css = InitialCss
    /\ pc = "idle"
    /\ html_content = <<>>
    /\ soup = <<>>
    /\ elements = <<>>
    /\ doc = <<>>
    /\ pdf_data = Nothing
    /\ screen = <<>>
    /\ memo = <<>>

\* The steps of a run after Convert: straight-line code, each runs when due.
Step ==
    \/ ConvertHtml
    \/ ConvertHtmlRaises
    \/ ConvertToPdf
    \/ ConvertToPdfFails
    \/ Extract
    \/ Build
    \/ EmitDocx

MainNext == Upload \/ SelectFormat \/ EditCss \/ Convert \/ Step \/ Observe

MainSpec == MainInit /\ [][MainNext]_vars /\ WF_vars(Step)

\* ------------------------------------------- the claims about the document

\* The loop has run: doc holds every block the conversion appends.
Built == pc = "built"

Headings == <<h1, h2, h3, h4, h5, h6>>

\* The nodes of soup below its body.
InBody == {i \in 1..Len(soup) : Body(soup) \in Ancestors(soup, i)}

\* The elements of the source with a given set of names.
Named(names) == {i \in InBody : soup[i].name \in names}

\* The blocks built from node i.
BlocksOf(i) == {j \in 1..Len(doc) : doc[j].src = i}

\* The last node of the subtree of node i: in document order the subtree is
\* the run of nodes from i up to the next node that is not below i.
SubtreeEnd(i) ==
    CHOOSE m \in i..Len(soup) :
        /\ \A j \in (i + 1)..m : i \in Ancestors(soup, j)
        /\ m < Len(soup) => i \notin Ancestors(soup, m + 1)

\* The character data of nodes a..b, joined.
RECURSIVE Strings(_, _)
Strings(a, b) == IF a > b THEN <<>> ELSE soup[a].string \o Strings(a + 1, b)

\* The flattened text of element i.
FlatText(i) == Strings(i, SubtreeEnd(i))

\* Whether s occurs in t as a run of consecutive characters.
IsInfix(s, t) ==
    \E k \in 0..(Len(t) - Len(s)) : SubSeq(t, k + 1, k + Len(s)) = s

NonBlank(s) == \E j \in 1..Len(s) : s[j] \notin Whitespace

RECURSIVE LStrip(_)
LStrip(s) ==
    IF s # <<>> /\ Head(s) \in Whitespace THEN LStrip(Tail(s)) ELSE s

RECURSIVE RStrip(_)
RStrip(s) ==
    IF s # <<>> /\ s[Len(s)] \in Whitespace
    THEN RStrip(SubSeq(s, 1, Len(s) - 1))
    ELSE s

\* str.strip(): the text without its leading and trailing whitespace.
Strip(s) == RStrip(LStrip(s))

\* C1: the blocks of the document are in the order of their elements in the
\* source, and every heading, paragraph, code block, list item and blockquote
\* of the source has exactly one block: none is dropped, merged or reordered.
C1_OrderPreservation ==
    Built =>
        /\ \A j, k \in 1..Len(doc) : j < k => doc[j].src < doc[k].src
        /\ \A i \in Named({h1, h2, h3, h4, h5, h6, p, pre, li, blockquote}) :
               Cardinality(BlocksOf(i)) = 1

\* C2: every h1..h6 yields a Heading block, every p a Paragraph, every pre a
\* CodeBlock, every li a ListItem and every blockquote a Blockquote, and ul and
\* ol yield no block.
C2_ElementRecognition ==
    Built =>
        /\ \A i \in Named({h1, h2, h3, h4, h5, h6}) :
               \E j \in BlocksOf(i) : doc[j].style = "Heading"
        /\ \A i \in Named({p}) :
               \E j \in BlocksOf(i) : doc[j].style = "Normal" /\ doc[j].font = None
        /\ \A i \in Named({pre}) :
               \E j \in BlocksOf(i) : doc[j].font = "Courier New"
        /\ \A i \in Named({li}) :
               \E j \in BlocksOf(i) : doc[j].style \in {"List Bullet", "List Number"}
        /\ \A i \in Named({blockquote}) :
               \E j \in BlocksOf(i) : doc[j].style = "Quote"
        /\ \A i \in Named({ul, ol}) : BlocksOf(i) = {}

\* C3: a heading block built from a level-1 heading has level 1 and accent
\* color A (44, 62, 80); one built from a heading of level 2 to 6 has that
\* level and accent color B (52, 152, 219); every level is within 1..6.
C3_HeadingLevelMapping ==
    Built =>
        \A j \in 1..Len(doc) :
            doc[j].style = "Heading" =>
                /\ doc[j].level \in 1..6
                /\ soup[doc[j].src].name = Headings[doc[j].level]
                /\ doc[j].level = 1 => doc[j].color = <<44, 62, 80>>
                /\ doc[j].level \in 2..6 => doc[j].color = <<52, 152, 219>>

\* C3's case: a document with a level-1 heading block and a subheading block of
\* a level above 2.
C3_Witness ==
    /\ Built
    /\ \E j, k \in 1..Len(doc) :
           /\ doc[j].style = "Heading" /\ doc[j].level = 1
           /\ doc[k].style = "Heading" /\ doc[k].level > 2

\* C4: every li yields exactly one list item; under a ul it is a List Bullet,
\* under an ol a List Number, at any depth; under any other parent it is still
\* one of the two, and list items with the same parent name have the same kind.
C4_ListKindFidelity ==
    Built =>
        LET items == Named({li})
            parentName(i) == soup[soup[i].parent].name
        IN  /\ \A i \in items :
                   /\ Cardinality(BlocksOf(i)) = 1
                   /\ \A j \in BlocksOf(i) :
                          /\ doc[j].style \in {"List Bullet", "List Number"}
                          /\ parentName(i) = ul => doc[j].style = "List Bullet"
                          /\ parentName(i) = ol => doc[j].style = "List Number"
            /\ \A i, k \in items :
                   parentName(i) = parentName(k) =>
                       \A j \in BlocksOf(i), m \in BlocksOf(k) :
                           doc[j].style = doc[m].style

\* C4's case: a bulleted item of a ul that holds a nested item whose parent is
\* no list.
C4_Witness ==
    /\ Built
    /\ \E j, k \in 1..Len(doc) :
           /\ soup[doc[j].src].name = li /\ soup[doc[k].src].name = li
           /\ soup[soup[doc[j].src].parent].name = ul
           /\ doc[j].style = "List Bullet"
           /\ soup[doc[k].src].parent = doc[j].src
           /\ doc[k].style = "List Number"

\* The elements whose text the converter puts in a block.
Captured == Named({h1, h2, h3, h4, p, pre, li, blockquote})

\* C5: when the body holds text that is not whitespace the document is not
\* empty, and every such string outside the captured elements has a plain text
\* block of its own.
C5_NoContentLoss ==
    Built =>
        /\ (\E i \in InBody : NonBlank(soup[i].string)) => doc # <<>>
        /\ \A i \in InBody :
               (NonBlank(soup[i].string) /\ Ancestors(soup, i) \cap Captured = {}) =>
                   \E j \in BlocksOf(i) : doc[j].text = soup[i].string

\* C8: every pre yields exactly one block, in Courier New, whose text is the
\* text of the code block without its leading and trailing whitespace.
C8_CodeBlockText ==
    Built =>
        \A i \in Named({pre}) :
            /\ Cardinality(BlocksOf(i)) = 1
            /\ \A j \in BlocksOf(i) :
                   /\ doc[j].font = "Courier New"
                   /\ doc[j].text = Strip(FlatText(i))

\* C10: the document has exactly one block for each h1-h4, p, pre, li and
\* blockquote below body, in document order, each with the whole flattened
\* text of its element; so the text of a block whose element lies inside
\* another block's element occurs in that block's text too.
C10_OneBlockPerElement ==
    Built =>
        LET captured == Captured
        IN  /\ Len(doc) = Cardinality(captured)
            /\ \A j \in 1..Len(doc) :
                   /\ doc[j].src \in captured
                   /\ doc[j].text = FlatText(doc[j].src)
            /\ \A j, k \in 1..Len(doc) :
                   /\ j < k => doc[j].src < doc[k].src
                   /\ doc[j].src \in Ancestors(soup, doc[k].src) =>
                          IsInfix(doc[k].text, doc[j].text)

\* C10's case: a block with text whose element lies inside the element of
\* another block.
C10_Witness ==
    /\ Built
    /\ \E j, k \in 1..Len(doc) :
           /\ doc[j].src \in Ancestors(soup, doc[k].src)
           /\ doc[k].text # <<>>

\* ---------------------------------------- the claims about the application

\* The widgets that offer a file.
Downloads == {j \in 1..Len(screen) : screen[j].widget = "download_button"}

\* The noted request had the upload the current one has.
SameUpload == memo # <<>> /\ memo[1].md = md_content

\* The noted request had the upload and the options the current one has.
SameRequest ==
    /\ SameUpload
    /\ memo[1].fmt = output_format
    /\ memo[1].css = custom_css

HasBackslash(s) == \E j \in 1..Len(s) : s[j] = "\\"

First(toks, tok) ==
    CHOOSE i \in 1..Len(toks) :
        toks[i] = tok /\ \A j \in 1..(i - 1) : toks[j] # tok

\* The content of the style block of an HTML text.
StyleText(toks) == toks[First(toks, Open(style)) + 1].v

\* An HTML text from its <body> on.
BodyText(toks) == SubSeq(toks, First(toks, Open(body)), Len(toks))

\* C7: an HTML request with custom CSS ends with an output whose style block
\* holds exactly the CSS typed and whose body is that of the converted
\* Markdown; the output of a PDF or DOCX request does not depend on the CSS.
C7_CustomCssScope ==
    /\ (pc \in Finished /\ output_format = "HTML" /\ custom_css # <<>>) =>
           /\ pc = "emitted"
           /\ StyleText(screen[1].data) = custom_css
           /\ BodyText(screen[1].data) = BodyText(md_to_html_with_style(md_content))
    /\ (pc \in Finished /\ SameUpload /\ output_format \in {"PDF", "DOCX"}
          /\ memo[1].fmt = output_format /\ memo[1].pc = pc) =>
           memo[1].screen = screen

\* The stage a position of the run belongs to, by its place in the pipeline.
Rank(at) ==
    CASE at = "idle" -> 0
      [] at = "parsed" -> 1
      [] at = "extracted" -> 2
      [] at = "built" -> 3
      [] at \in Finished -> 4

Running == {"parsed", "extracted", "built"}

\* Every step of a request moves it to a later stage (a DOCX request to the
\* next one) and leaves the upload and the options alone; between requests the
\* only way on is a new request.
StageOrder ==
    /\ pc \in Running =>
           /\ Rank(pc') > Rank(pc)
           /\ output_format = "DOCX" => Rank(pc') = Rank(pc) + 1
           /\ <<md_content, output_format, custom_css>>' =
                  <<md_content, output_format, custom_css>>
    /\ pc \in Resting => pc' \in {pc, "idle", "parsed"}

\* A request with the upload and the options of the noted one ends as it did;
\* for PDF, when the rendering engine answers as it did.
Stateless ==
    (pc \in Finished /\ SameRequest) =>
        /\ output_format # "PDF" => memo[1].pc = pc
        /\ memo[1].pc = pc => memo[1].screen = screen

====
